---- MODULE Spec2Model ----
(***************************************************************************)
(* Version "spiders" (src/versions/spiders/__init__.py) and the throttled  *)
(* Graph._query of the audit client (src/az-ad/graph.py).                  *)
(*                                                                         *)
(* A Python str is a sequence of one-character strings, so that lstrip,    *)
(* startswith, split, replace, the regular expressions and natsort's key   *)
(* are computed character by character.                                    *)
(***************************************************************************)
EXTENDS Integers, Sequences, FiniteSets, TLC

VARIABLES
    spider,      \* the class of the spider instance under call
    beautify,    \* get_version's beautify argument
    arg,         \* the constructor's string: version, prefix, pattern
    pc,          \* "ready" | "done" | "twice"
    status,      \* response.status_code of the one requests.get (0: none)
    body,        \* what the backend held: tag names, xpath hits, file lines
    data,        \* the parsed kubectl YAML document
    outcome,     \* "none" | "returned" | "raised"
    exc,         \* exception class raised
    msg,         \* which message the exception carries
    result,      \* the str returned
    picked,      \* the raw candidate handed to _beautify_version
    requests,    \* number of requests.get calls made
    extracted,   \* whether the response body / file content was indexed
    again,       \* _beautify_version(result, True), the second application
    gpc,         \* Graph._query: position of the call
    gcall,       \* Graph._query: the endpoint and url arguments of the frame
    request_url, \* Graph._query: request_url of the current frame
    sent,        \* Graph._query: URLs of the requests issued, in order
    gstatus,     \* Graph._query: status_code of the last response
    throttled,   \* Graph._query: number of 429 responses received
    slept,       \* Graph._query: seconds spent in time.sleep
    depth        \* Graph._query: recursion depth (frames below the first)

spiderVars == <<spider, beautify, arg, pc, status, body, data, outcome, exc, msg,
                result, picked, requests, extracted, again>>
graphVars == <<gpc, gcall, request_url, sent, gstatus, throttled, slept, depth>>
vars == <<spiderVars, graphVars>>

----------------------------------------------------------------------------
\* Bounds of the model

\* number of tokens a raw version handed to StaticSpider is built from
MaxTokens == 4
\* number of entries (tags, releases, lines, links) a backend returns
MaxEntries == 3
\* number of 429 responses the server sends during one Graph._query call
MaxThrottled == 6

----------------------------------------------------------------------------
\* Python str operations

Digit == {"0", "1", "2", "3", "4", "5", "6", "7", "8", "9"}

DigitVal == [c \in Digit |->
    CASE c = "0" -> 0 [] c = "1" -> 1 [] c = "2" -> 2 [] c = "3" -> 3 [] c = "4" -> 4
      [] c = "5" -> 5 [] c = "6" -> 6 [] c = "7" -> 7 [] c = "8" -> 8 [] c = "9" -> 9]

\* the literals of the source
S_release == <<"r", "e", "l", "e", "a", "s", "e", "-">>

RECURSIVE Flatten(_)
Flatten(ss) == IF ss = <<>> THEN <<>> ELSE Head(ss) \o Flatten(Tail(ss))

\* str.lstrip(c) for a one-character c: every leading c is removed
RECURSIVE lstrip(_, _)
lstrip(s, c) == IF s # <<>> /\ Head(s) = c THEN lstrip(Tail(s), c) ELSE s

startswith(s, p) == Len(s) >= Len(p) /\ SubSeq(s, 1, Len(p)) = p

endswith(s, p) == Len(s) >= Len(p) /\ SubSeq(s, Len(s) - Len(p) + 1, Len(s)) = p

\* s[n:]
SliceFrom(s, n) == SubSeq(s, n + 1, Len(s))

\* c in s
Contains(s, c) == \E i \in 1..Len(s) : s[i] = c

\* str.split(c) for a one-character c: the list of the parts between the c's
RECURSIVE SplitFrom(_, _, _)
SplitFrom(s, c, acc) ==
    IF s = <<>> THEN <<acc>>
    ELSE IF Head(s) = c THEN <<acc>> \o SplitFrom(Tail(s), c, <<>>)
    ELSE SplitFrom(Tail(s), c, Append(acc, Head(s)))

split(s, c) == SplitFrom(s, c, <<>>)

\* str.replace(old, ""): every non-overlapping occurrence, left to right
RECURSIVE remove(_, _)
remove(s, old) ==
    IF s = <<>> THEN <<>>
    ELSE IF startswith(s, old) THEN remove(SliceFrom(s, Len(old)), old)
    ELSE <<Head(s)>> \o remove(Tail(s), old)

----------------------------------------------------------------------------
\* _beautify_version

\* a prefix removal that takes one character only
strip_v_once(version) == IF version # <<>> /\ Head(version) = "v" THEN Tail(version) ELSE version

\* version.lstrip('v')
strip_v(version) == lstrip(version, "v")

_beautify_version(version, flag) ==
    IF ~flag THEN version
    ELSE LET stripped == strip_v(version)
             unprefixed == IF startswith(stripped, S_release)
                           THEN SliceFrom(stripped, Len(S_release))
                           ELSE stripped
         IN IF Contains(unprefixed, "-") THEN split(unprefixed, "-")[1] ELSE unprefixed

----------------------------------------------------------------------------
\* Comparison of str and natsort

\* the characters of the inputs in code point order
CodeOrder == <<"\n", " ", "-", ".", "/", "0", "1", "2", "3", "4", "5", "6", "7", "8", "9",
               ":", "F", "M", "N", "O", "R", "U",
               "a", "b", "c", "d", "e", "f", "g", "h", "i", "j", "k", "l", "m",
               "n", "o", "p", "q", "r", "s", "t", "u", "v", "w", "x", "y", "z">>

ord(c) == CHOOSE i \in 1..Len(CodeOrder) : CodeOrder[i] = c

\* a < b for two str
RECURSIVE StrLess(_, _)
StrLess(a, b) ==
    IF b = <<>> THEN FALSE
    ELSE IF a = <<>> THEN TRUE
    ELSE IF Head(a) = Head(b) THEN StrLess(Tail(a), Tail(b))
    ELSE ord(Head(a)) < ord(Head(b))

\* int() of a run of digits
RECURSIVE IntFrom(_, _)
IntFrom(s, acc) == IF s = <<>> THEN acc ELSE IntFrom(Tail(s), acc * 10 + DigitVal[Head(s)])

AllDigits(s, i, j) == i <= j /\ \A k \in i..j : s[k] \in Digit

\* int(p): an optional sign and digits, else ValueError
IsIntLiteral(p) ==
    \/ AllDigits(p, 1, Len(p))
    \/ Len(p) >= 2 /\ p[1] \in {"-", "+"} /\ AllDigits(p, 2, Len(p))

int(p) ==
    IF p[1] = "-" THEN 0 - IntFrom(Tail(p), 0)
    ELSE IF p[1] = "+" THEN IntFrom(Tail(p), 0)
    ELSE IntFrom(p, 0)

\* length of the leading run of s of digits (d) or of non-digits (~d)
RECURSIVE RunLen(_, _)
RunLen(s, d) ==
    IF s = <<>> \/ (Head(s) \in Digit) # d THEN 0 ELSE 1 + RunLen(Tail(s), d)

\* natsort's split of a str into runs, the runs of digits converted by int
RECURSIVE Chunks(_)
Chunks(s) ==
    IF s = <<>> THEN <<>>
    ELSE LET d == Head(s) \in Digit
             n == RunLen(s, d)
             run == SubSeq(s, 1, n)
         IN <<[isnum |-> d, num |-> IF d THEN IntFrom(run, 0) ELSE 0, text |-> run]>>
                \o Chunks(SliceFrom(s, n))

\* natsort's key: the runs, with '' put first when the str starts with a number
natsort_key(s) ==
    LET cs == Chunks(s)
    IN IF cs # <<>> /\ cs[1].isnum
       THEN <<[isnum |-> FALSE, num |-> 0, text |-> <<>>]>> \o cs
       ELSE cs

\* numbers compared as text
ChunkLessText(a, b) == StrLess(a.text, b.text)

\* one element of a key against the element at the same place of another key
ChunkLess(a, b) == IF a.isnum THEN a.num < b.num ELSE StrLess(a.text, b.text)

\* tuple comparison of two keys
RECURSIVE KeyLess(_, _)
KeyLess(k1, k2) ==
    IF k2 = <<>> THEN FALSE
    ELSE IF k1 = <<>> THEN TRUE
    ELSE IF ChunkLess(Head(k1), Head(k2)) THEN TRUE
    ELSE IF ChunkLess(Head(k2), Head(k1)) THEN FALSE
    ELSE KeyLess(Tail(k1), Tail(k2))

NatLess(a, b) == KeyLess(natsort_key(a), natsort_key(b))

\* x put before every element that is not greater than it
RECURSIVE InsertDescUnstable(_, _)
InsertDescUnstable(sorted, x) ==
    IF sorted = <<>> THEN <<x>>
    ELSE IF ~NatLess(x, Head(sorted)) THEN <<x>> \o sorted
    ELSE <<Head(sorted)>> \o InsertDescUnstable(Tail(sorted), x)

\* x put behind every element that is not smaller than it
RECURSIVE InsertDesc(_, _)
InsertDesc(sorted, x) ==
    IF sorted = <<>> THEN <<x>>
    ELSE IF NatLess(Head(sorted), x) THEN <<x>> \o sorted
    ELSE <<Head(sorted)>> \o InsertDesc(Tail(sorted), x)

RECURSIVE SortDesc(_, _)
SortDesc(seq, acc) ==
    IF seq = <<>> THEN acc ELSE SortDesc(Tail(seq), InsertDesc(acc, Head(seq)))

\* natsorted(seq, reverse=True): sorted() by natsort's key, descending, stable
natsorted_reverse(seq) == SortDesc(seq, <<>>)

----------------------------------------------------------------------------
\* The regular expressions

\* where `$` can match: the end, or just before a final newline
Ends(s) == {Len(s)} \cup (IF s # <<>> /\ s[Len(s)] = "\n" THEN {Len(s) - 1} ELSE {})

\* `.`: any character but a newline
Dot(c) == c # "\n"

\* s[1..e] matches \d+.\d+.\d+
Match3(s, e) ==
    \E a, b \in 1..e :
        /\ a < b
        /\ AllDigits(s, 1, a - 1)
        /\ Dot(s[a])
        /\ AllDigits(s, a + 1, b - 1)
        /\ Dot(s[b])
        /\ AllDigits(s, b + 1, e)

\* BitbucketReleaseSpider: re.compile(r'^\d+.\d+.\d+$').match(name)
Bitbucket_version_pattern(name) == \E e \in Ends(name) : Match3(name, e)

\* DockerHubSpider: re.compile(r'^\d+.\d+.\d+(-\d)?$').match(name)
DockerHub_version_pattern(name) ==
    \E e \in Ends(name) :
        \/ Match3(name, e)
        \/ e >= 2 /\ name[e - 1] = "-" /\ name[e] \in Digit /\ Match3(name, e - 2)

S_FROM == <<"F", "R", "O", "M", " ">>

\* the ':' of r'^FROM .*:v?(\d+.*)$' can stand at i: a digit, or 'v' and a
\* digit, follows it, and no newline stands before the place `$` matches
FromColons(line) ==
    {i \in (Len(S_FROM) + 1)..Len(line) :
        /\ line[i] = ":"
        /\ \/ i + 1 <= Len(line) /\ line[i + 1] \in Digit
           \/ i + 2 <= Len(line) /\ line[i + 1] = "v" /\ line[i + 2] \in Digit
        /\ \E e \in Ends(line) : \A k \in (Len(S_FROM) + 1)..e : Dot(line[k])}

SetMax(S) == CHOOSE x \in S : \A y \in S : y <= x

SetMin(S) == CHOOSE x \in S : \A y \in S : x <= y

\* DockerfileSpider: self.re.match(line)
Dockerfile_re_match(line) == startswith(line, S_FROM) /\ FromColons(line) # {}

\* match.group(1): `.*` is greedy, so the last ':' that can be taken is taken
Dockerfile_re_group1(line) ==
    LET i == SetMax(FromColons(line))
        d == IF line[i + 1] \in Digit THEN i + 1 ELSE i + 2
        e == SetMax({x \in Ends(line) : \A k \in d..x : Dot(line[k])})
    IN SubSeq(line, d, e)

----------------------------------------------------------------------------
\* Inputs

Tokens == {<<"v">>, S_release, <<"-">>, <<"1">>, <<".">>}

TokenSeqs == UNION {[1..n -> Tokens] : n \in 0..MaxTokens}

RawVersions == {Flatten(ts) : ts \in TokenSeqs}

T_1_2_3 == <<"1", ".", "2", ".", "3">>
T_v1_2_3 == <<"v", "1", ".", "2", ".", "3">>
T_1_2 == <<"1", ".", "2">>
T_12_0_1 == <<"1", "2", ".", "0", ".", "1">>
T_1h2h3 == <<"1", "-", "2", "-", "3">>
BitbucketTags == {T_1_2_3, T_1h2h3, T_v1_2_3, T_1_2, T_12_0_1}

T_1_10_0 == <<"1", ".", "1", "0", ".", "0">>
T_1_9_0 == <<"1", ".", "9", ".", "0">>
T_1_010_0 == <<"1", ".", "0", "1", "0", ".", "0">>
T_latest == <<"l", "a", "t", "e", "s", "t">>
T_1_9_0_1 == <<"1", ".", "9", ".", "0", "-", "1">>
DockerHubTags == {T_1_10_0, T_1_9_0, T_1_010_0, T_latest, T_1_9_0_1}

T_v1_10_0 == <<"v", "1", ".", "1", "0", ".", "0">>
T_v1_9_0 == <<"v", "1", ".", "9", ".", "0">>
T_10_0 == <<"1", "0", ".", "0">>
T_9_0 == <<"9", ".", "0">>
T_v1_09_0 == <<"v", "1", ".", "0", "9", ".", "0">>
GithubReleaseTags == {T_v1_10_0, T_v1_9_0, T_10_0, T_9_0, T_v1_09_0}

T_v2_0_0 == <<"v", "2", ".", "0", ".", "0">>
T_v1_9_5_legacy == <<"v", "1", ".", "9", ".", "5", "-", "l", "e", "g", "a", "c", "y">>
T_release_1_9_1 == <<"r", "e", "l", "e", "a", "s", "e", "-", "1", ".", "9", ".", "1">>
GithubPrefixTags == {T_v2_0_0, T_v1_9_5_legacy, T_v1_9_0, T_release_1_9_1}

T_release_2_0_0 == <<"r", "e", "l", "e", "a", "s", "e", "-", "2", ".", "0", ".", "0">>
GithubLatestTags == {T_v1_2_3, T_release_2_0_0}

P_1_9 == <<"1", ".", "9">>
P_2 == <<"2">>
P_3 == <<"3">>
Prefixes == {P_1_9, P_2, P_3}

H_3_1_2_r0 == <<"3", ".", "1", ".", "2", "-", "r", "0">>
H_v2_1 == <<"v", "2", ".", "1">>
PageHits == {H_3_1_2_r0, H_v2_1}

A_sonarqube_7_9_zip == <<"s", "o", "n", "a", "r", "q", "u", "b", "e", "-", "7", ".", "9", ".", "z", "i", "p">>
A_sonarqube_7_10_zip == <<"s", "o", "n", "a", "r", "q", "u", "b", "e", "-", "7", ".", "1", "0", ".", "z", "i", "p">>
A_sonarqube_7_9_zip_asc == <<"s", "o", "n", "a", "r", "q", "u", "b", "e", "-", "7", ".", "9", ".", "z", "i", "p", ".", "a", "s", "c">>
A_parent == <<".", ".", "/">>
Hrefs == {A_sonarqube_7_9_zip, A_sonarqube_7_10_zip, A_sonarqube_7_9_zip_asc, A_parent}

L_FROM_registry_example_1_4_0 == <<"F", "R", "O", "M", " ", "r", "e", "g", "i", "s", "t", "r", "y", "/", "e", "x", "a", "m", "p", "l", "e", ":", "1", ".", "4", ".", "0", "\n">>
L_FROM_host_5000_img_latest == <<"F", "R", "O", "M", " ", "h", "o", "s", "t", ":", "5", "0", "0", "0", "/", "i", "m", "g", ":", "l", "a", "t", "e", "s", "t", "\n">>
L_FROM_img_v1_2 == <<"F", "R", "O", "M", " ", "i", "m", "g", ":", "v", "1", ".", "2", "\n">>
L_RUN_make == <<"R", "U", "N", " ", "m", "a", "k", "e", "\n">>
L_FROM_host_5000_img_1_4_eof == <<"F", "R", "O", "M", " ", "h", "o", "s", "t", ":", "5", "0", "0", "0", "/", "i", "m", "g", ":", "1", ".", "4">>
L_FROM_scratch == <<"F", "R", "O", "M", " ", "s", "c", "r", "a", "t", "c", "h", "\n">>
FileLines == {L_FROM_registry_example_1_4_0, L_FROM_host_5000_img_latest, L_FROM_img_v1_2, L_RUN_make, L_FROM_host_5000_img_1_4_eof, L_FROM_scratch}

I_registry_example_v3_2_1 == <<"r", "e", "g", "i", "s", "t", "r", "y", "/", "e", "x", "a", "m", "p", "l", "e", ":", "v", "3", ".", "2", ".", "1">>
I_localhost_5000_app_v1_0 == <<"l", "o", "c", "a", "l", "h", "o", "s", "t", ":", "5", "0", "0", "0", "/", "a", "p", "p", ":", "v", "1", ".", "0">>
I_nginx == <<"n", "g", "i", "n", "x">>
I_app_2_2_1_alpine == <<"a", "p", "p", ":", "2", ".", "2", ".", "1", "-", "a", "l", "p", "i", "n", "e">>
Images == {I_registry_example_v3_2_1, I_localhost_5000_app_v1_0, I_nginx, I_app_2_2_1_alpine}

Q_spec_containers_0_image == <<"s", "p", "e", "c", ".", "c", "o", "n", "t", "a", "i", "n", "e", "r", "s", ".", "0", ".", "i", "m", "a", "g", "e">>
Q_spec_containers_1_image == <<"s", "p", "e", "c", ".", "c", "o", "n", "t", "a", "i", "n", "e", "r", "s", ".", "1", ".", "i", "m", "a", "g", "e">>
Q_spec_containers_image == <<"s", "p", "e", "c", ".", "c", "o", "n", "t", "a", "i", "n", "e", "r", "s", ".", "i", "m", "a", "g", "e">>
Q_spec_image == <<"s", "p", "e", "c", ".", "i", "m", "a", "g", "e">>
Q_spec_containers_0 == <<"s", "p", "e", "c", ".", "c", "o", "n", "t", "a", "i", "n", "e", "r", "s", ".", "0">>
Q_spec_0 == <<"s", "p", "e", "c", ".", "0">>
Q_spec_containers__1_image == <<"s", "p", "e", "c", ".", "c", "o", "n", "t", "a", "i", "n", "e", "r", "s", ".", "-", "1", ".", "i", "m", "a", "g", "e">>
Patterns == {Q_spec_containers_0_image, Q_spec_containers_1_image, Q_spec_containers_image, Q_spec_image, Q_spec_containers_0, Q_spec_0, Q_spec_containers__1_image}

S_spec == <<"s", "p", "e", "c">>
S_containers == <<"c", "o", "n", "t", "a", "i", "n", "e", "r", "s">>
S_image == <<"i", "m", "a", "g", "e">>
S_sonarqube == <<"s", "o", "n", "a", "r", "q", "u", "b", "e", "-">>
S_zip == <<".", "z", "i", "p">>

\* a list of at most MaxEntries entries of the pool
Lists(pool) == UNION {[1..n -> pool] : n \in 0..MaxEntries}

HTTPStatuses == {200, 404, 503}

\* parsed YAML: a str, a list or a dict
Str(s) == [kind |-> "str", val |-> s]
List(xs) == [kind |-> "list", val |-> xs]
Dict(f) == [kind |-> "dict", val |-> f]

\* a workload whose first container runs img, and a resource that keeps img
\* under the mapping key '0'
Documents ==
    {Dict(S_spec :> Dict(S_containers :> List(<<Dict(S_image :> Str(img))>>))) : img \in Images}
    \cup {Dict(S_spec :> Dict(<<"0">> :> Str(img))) : img \in Images}

SpiderKinds == {"AlpinePackageSpider", "BitbucketReleaseSpider", "DockerfileSpider",
                "DockerHubSpider", "GithubLatestReleaseSpider", "GithubPrefixReleaseSpider",
                "GithubReleaseSpider", "JenkinsStableSpider", "KubernetesImageVersionSpider",
                "SonarQubeReleaseSpider", "StaticSpider"}

HTTPSpiders == {"AlpinePackageSpider", "BitbucketReleaseSpider", "DockerHubSpider",
                "GithubLatestReleaseSpider", "GithubPrefixReleaseSpider",
                "GithubReleaseSpider", "JenkinsStableSpider", "SonarQubeReleaseSpider"}

\* the string the constructor keeps: version, prefix, pattern
Args(kind) ==
    CASE kind = "StaticSpider" -> RawVersions
      [] kind = "GithubPrefixReleaseSpider" -> Prefixes
      [] kind = "KubernetesImageVersionSpider" -> Patterns
      [] OTHER -> {<<>>}

----------------------------------------------------------------------------
\* The spiders

NoData == [kind |-> "null", val |-> <<>>]

None == <<>>

GraphIdle ==
    /\ gpc = "idle"
    /\ gcall = [endpoint |-> None, url |-> None]
    /\ request_url = None
    /\ sent = <<>>
    /\ gstatus = 0
    /\ throttled = 0
    /\ slept = 0
    /\ depth = 0

Init ==
    /\ spider \in SpiderKinds
    /\ beautify \in BOOLEAN
    /\ arg \in Args(spider)
    /\ pc = "ready"
    /\ status = 0
    /\ body = <<>>
    /\ data = NoData
    /\ outcome = "none"
    /\ exc = ""
    /\ msg = ""
    /\ result = <<>>
    /\ picked = <<>>
    /\ requests = 0
    /\ extracted = FALSE
    /\ again = <<>>
    /\ GraphIdle

\* get_version is called on the spider
Call(kind) ==
    /\ spider = kind
    /\ pc = "ready"
    /\ pc' = "done"
    /\ UNCHANGED <<spider, beautify, arg, again>>
    /\ UNCHANGED graphVars

\* `return value`
ReturnStr(raw, value) ==
    /\ outcome' = "returned"
    /\ picked' = raw
    /\ result' = value
    /\ exc' = ""
    /\ msg' = ""

\* `return _beautify_version(raw, beautify)`
Return(raw) == ReturnStr(raw, _beautify_version(raw, beautify))

Raise(e, m) ==
    /\ outcome' = "raised"
    /\ exc' = e
    /\ msg' = m
    /\ picked' = <<>>
    /\ result' = <<>>

\* `return _beautify_version(list[0], beautify)`
ReturnFirst(list) ==
    IF list = <<>> THEN Raise("IndexError", "list index out of range") ELSE Return(list[1])

\* response = requests.get(self.url)
Get(st, content) ==
    /\ status' = st
    /\ body' = content
    /\ requests' = requests + 1
    /\ data' = data

\* the status check that skips every status
raise_for_status_never(st) == FALSE

\* response.raise_for_status() raises HTTPError for a 4xx or 5xx status
raise_for_status(st) == 400 <= st /\ st < 600

HTTPError ==
    /\ Raise("HTTPError", "status")
    /\ extracted' = FALSE

\* AlpinePackageSpider.get_version; content: the text of the td.version cells
AlpinePackageSpider_get_version ==
    /\ Call("AlpinePackageSpider")
    /\ \E st \in HTTPStatuses, version_list \in Lists(PageHits) :
        /\ Get(st, version_list)
        /\ IF raise_for_status(st) THEN HTTPError
           ELSE /\ extracted' = TRUE
                /\ ReturnFirst(version_list)

\* BitbucketReleaseSpider.get_version; content: the names of data['values']
BitbucketReleaseSpider_get_version ==
    /\ Call("BitbucketReleaseSpider")
    /\ \E st \in HTTPStatuses, names \in Lists(BitbucketTags) :
        /\ Get(st, names)
        /\ IF raise_for_status(st) THEN HTTPError
           ELSE /\ extracted' = TRUE
                /\ ReturnFirst(SelectSeq(names, Bitbucket_version_pattern))

RECURSIVE FirstMatching(_)
\* the first line of the file that self.re matches, <<>> when there is none
FirstMatching(lines) ==
    IF lines = <<>> THEN <<>>
    ELSE IF Dockerfile_re_match(Head(lines)) THEN <<Head(lines)>>
    ELSE FirstMatching(Tail(lines))

\* DockerfileSpider.get_version; content: the lines of the file
DockerfileSpider_get_version ==
    /\ Call("DockerfileSpider")
    /\ \E lines \in Lists(FileLines) :
        /\ body' = lines
        /\ extracted' = TRUE
        /\ LET found == FirstMatching(lines)
           IN IF found # <<>> THEN Return(Dockerfile_re_group1(found[1]))
              ELSE Raise("ValueError", "No version found in {path}")
    /\ UNCHANGED <<status, requests, data>>

\* DockerHubSpider.get_version; content: the names of data['results']
DockerHubSpider_get_version ==
    /\ Call("DockerHubSpider")
    /\ \E st \in HTTPStatuses, names \in Lists(DockerHubTags) :
        /\ Get(st, names)
        /\ IF raise_for_status(st) THEN HTTPError
           ELSE /\ extracted' = TRUE
                /\ ReturnFirst(natsorted_reverse(SelectSeq(names, DockerHub_version_pattern)))

\* GithubLatestReleaseSpider.get_version; content: the tag_name of the release
GithubLatestReleaseSpider_get_version ==
    /\ Call("GithubLatestReleaseSpider")
    /\ \E st \in HTTPStatuses, tag_name \in GithubLatestTags :
        /\ Get(st, <<tag_name>>)
        /\ IF raise_for_status(st) THEN HTTPError
           ELSE /\ extracted' = TRUE
                /\ Return(tag_name)

\* the loop over the releases that tests the raw tag_name
RECURSIVE PrefixLoopRaw(_, _, _)
PrefixLoopRaw(releases, prefix, flag) ==
    IF releases = <<>> THEN <<>>
    ELSE IF startswith(Head(releases), prefix)
         THEN <<Head(releases),
                IF flag THEN _beautify_version(Head(releases), TRUE) ELSE Head(releases)>>
         ELSE PrefixLoopRaw(Tail(releases), prefix, flag)

\* `for release in data`: <<tag_name, value returned>> of the first release
\* whose beautified tag_name starts with the prefix, <<>> when the loop ends
RECURSIVE PrefixLoop(_, _, _)
PrefixLoop(releases, prefix, flag) ==
    IF releases = <<>> THEN <<>>
    ELSE LET version == _beautify_version(Head(releases), TRUE)
         IN IF startswith(version, prefix)
            THEN <<Head(releases), IF flag THEN version ELSE Head(releases)>>
            ELSE PrefixLoop(Tail(releases), prefix, flag)

\* GithubPrefixReleaseSpider.get_version; content: the tag_name of each release
GithubPrefixReleaseSpider_get_version ==
    /\ Call("GithubPrefixReleaseSpider")
    /\ \E st \in HTTPStatuses, releases \in Lists(GithubPrefixTags) :
        /\ Get(st, releases)
        /\ IF raise_for_status(st) THEN HTTPError
           ELSE /\ extracted' = TRUE
                /\ LET found == PrefixLoop(releases, arg, beautify)
                   IN IF found # <<>> THEN ReturnStr(found[1], found[2])
                      ELSE Raise("ValueError",
                                 "Failed to locate a release matching prefix: {prefix}")

\* GithubReleaseSpider.get_version; content: the tag_name of each release
GithubReleaseSpider_get_version ==
    /\ Call("GithubReleaseSpider")
    /\ \E st \in HTTPStatuses, versions \in Lists(GithubReleaseTags) :
        /\ Get(st, versions)
        /\ IF raise_for_status(st) THEN HTTPError
           ELSE /\ extracted' = TRUE
                /\ ReturnFirst(natsorted_reverse(versions))

\* JenkinsStableSpider.get_version; content: the ids of the first h3 headings
JenkinsStableSpider_get_version ==
    /\ Call("JenkinsStableSpider")
    /\ \E st \in HTTPStatuses, version_list \in Lists(PageHits) :
        /\ Get(st, version_list)
        /\ IF raise_for_status(st) THEN HTTPError
           ELSE /\ extracted' = TRUE
                /\ ReturnFirst(version_list)

Fail(e, m) == [ok |-> FALSE, val |-> NoData, exc |-> e, msg |-> m]

\* `for p in self.pattern.split('.')`, from section on
RECURSIVE Walk(_, _)
Walk(section, ps) ==
    IF ps = <<>> THEN [ok |-> TRUE, val |-> section, exc |-> "", msg |-> ""]
    ELSE LET p == Head(ps)
         IN CASE section.kind = "list" ->
                   IF ~IsIntLiteral(p) THEN Fail("ValueError", "invalid literal for int()")
                   ELSE LET i == int(p)
                            n == Len(section.val)
                        IN IF i >= n \/ i < 0 - n
                           THEN Fail("IndexError", "list index out of range")
                           ELSE Walk(section.val[(IF i < 0 THEN i + n ELSE i) + 1], Tail(ps))
              [] section.kind = "dict" ->
                   IF p \in DOMAIN section.val THEN Walk(section.val[p], Tail(ps))
                   ELSE Fail("KeyError", "key")
              [] OTHER -> Fail("TypeError", "string indices must be integers")

\* `(_, version) = section.split(':')`: exactly two parts unpack
Unpack(parts) == IF Len(parts) = 2 THEN <<TRUE, parts[2]>> ELSE <<FALSE, <<>>>>

\* KubernetesImageVersionSpider.get_version; content: the YAML kubectl printed
KubernetesImageVersionSpider_get_version ==
    /\ Call("KubernetesImageVersionSpider")
    /\ \E doc \in Documents, kubectl_failed \in BOOLEAN :
        /\ data' = doc
        /\ IF kubectl_failed
           THEN /\ Raise("CalledProcessError", "kubectl")
                /\ extracted' = FALSE
           ELSE /\ extracted' = TRUE
                /\ LET walked == Walk(doc, split(arg, "."))
                   IN IF ~walked.ok THEN Raise(walked.exc, walked.msg)
                      ELSE IF walked.val.kind # "str"
                      THEN Raise("AttributeError", "split")
                      ELSE LET unpacked == Unpack(split(walked.val.val, ":"))
                           IN IF unpacked[1] THEN Return(unpacked[2])
                              ELSE Raise("ValueError", "values to unpack")
    /\ UNCHANGED <<status, body, requests>>

Sonar_is_download(x) == startswith(x, S_sonarqube) /\ endswith(x, S_zip)

RECURSIVE Sonar_strip(_)
\* map(lambda x: x.replace('sonarqube-', '').replace('.zip', ''), ...)
Sonar_strip(links) ==
    IF links = <<>> THEN <<>>
    ELSE <<remove(remove(Head(links), S_sonarqube), S_zip)>> \o Sonar_strip(Tail(links))

\* SonarQubeReleaseSpider.get_version; content: the href of each link
SonarQubeReleaseSpider_get_version ==
    /\ Call("SonarQubeReleaseSpider")
    /\ \E st \in HTTPStatuses, download_links \in Lists(Hrefs) :
        /\ Get(st, download_links)
        /\ IF raise_for_status(st) THEN HTTPError
           ELSE /\ extracted' = TRUE
                /\ LET sorted_downloads ==
                           natsorted_reverse(Sonar_strip(SelectSeq(download_links, Sonar_is_download)))
                   IN IF Len(sorted_downloads) = 0
                      THEN Raise("ValueError", "SonarQubeReleaseSpider failed to locate any releases")
                      ELSE Return(sorted_downloads[1])

\* StaticSpider.get_version
StaticSpider_get_version ==
    /\ Call("StaticSpider")
    /\ Return(arg)
    /\ UNCHANGED <<status, body, data, requests, extracted>>

\* a caller normalizes an already normalized version once more
BeautifyAgain ==
    /\ spider = "StaticSpider"
    /\ pc = "done"
    /\ outcome = "returned"
    /\ beautify
    /\ pc' = "twice"
    /\ again' = _beautify_version(result, TRUE)
    /\ UNCHANGED <<spider, beautify, arg, status, body, data, outcome, exc, msg,
                   result, picked, requests, extracted>>
    /\ UNCHANGED graphVars

Next ==
    \/ AlpinePackageSpider_get_version
    \/ BitbucketReleaseSpider_get_version
    \/ DockerfileSpider_get_version
    \/ DockerHubSpider_get_version
    \/ GithubLatestReleaseSpider_get_version
    \/ GithubPrefixReleaseSpider_get_version
    \/ GithubReleaseSpider_get_version
    \/ JenkinsStableSpider_get_version
    \/ KubernetesImageVersionSpider_get_version
    \/ SonarQubeReleaseSpider_get_version
    \/ StaticSpider_get_version
    \/ BeautifyAgain

Spec == Init /\ [][Next]_vars

----------------------------------------------------------------------------
\* Graph._query

\* requests.codes.too_many_requests
too_many_requests == 429

\* the seconds of time.sleep
Backoff == 10

\* self._remote with its {endpoint} place left open
Remote == <<"{API_BASE}", "/", "{API_VERSION}">>

Endpoints == {<<"/users">>, <<"/auditLogs/signIns">>, <<"/groups/{id}">>}

NextLinks == {Remote \o <<"/users?$skiptoken=1">>, Remote \o <<"/auditLogs/signIns?$skiptoken=1">>}

GraphStatuses == {200, 404, too_many_requests}

SpiderIdle ==
    /\ spider = "none"
    /\ beautify = FALSE
    /\ arg = <<>>
    /\ pc = "idle"
    /\ status = 0
    /\ body = <<>>
    /\ data = NoData
    /\ outcome = "none"
    /\ exc = ""
    /\ msg = ""
    /\ result = <<>>
    /\ picked = <<>>
    /\ requests = 0
    /\ extracted = FALSE
    /\ again = <<>>

\* a caller enters _query with an endpoint (_query, get_group_name, ...) or
\* with the url of the next page (_query_for_values)
GraphInit ==
    /\ SpiderIdle
    /\ gpc = "call"
    /\ gcall \in {[endpoint |-> e, url |-> None] : e \in Endpoints}
                 \cup {[endpoint |-> None, url |-> u] : u \in NextLinks}
    /\ request_url = None
    /\ sent = <<>>
    /\ gstatus = 0
    /\ throttled = 0
    /\ slept = 0
    /\ depth = 0

\* `if url: request_url = url  else: request_url = self._remote.format(...)`
Query_begin ==
    /\ gpc = "call"
    /\ request_url' = IF gcall.url # None THEN gcall.url ELSE Remote \o gcall.endpoint
    /\ gpc' = "get"
    /\ UNCHANGED <<gcall, sent, gstatus, throttled, slept, depth>>
    /\ UNCHANGED spiderVars

\* `response = requests.get(url=request_url, headers=self.headers)`
Query_get ==
    /\ gpc = "get"
    /\ \E st \in GraphStatuses :
        /\ st = too_many_requests => throttled < MaxThrottled
        /\ gstatus' = st
        /\ throttled' = IF st = too_many_requests THEN throttled + 1 ELSE throttled
    /\ sent' = Append(sent, request_url)
    /\ gpc' = "check"
    /\ UNCHANGED <<gcall, request_url, slept, depth>>
    /\ UNCHANGED spiderVars

\* a retry that gives up at the third 429
Query_throttled_capped ==
    /\ gpc = "check"
    /\ gstatus = too_many_requests
    /\ IF throttled >= 3
       THEN /\ gpc' = "raised"
            /\ UNCHANGED <<gcall, slept, depth>>
       ELSE /\ slept' = slept + Backoff
            /\ gcall' = [endpoint |-> None, url |-> request_url]
            /\ depth' = depth + 1
            /\ gpc' = "call"
    /\ UNCHANGED <<request_url, sent, gstatus, throttled>>
    /\ UNCHANGED spiderVars

\* `time.sleep(10); return self._query(url=request_url)`
Query_throttled ==
    /\ gpc = "check"
    /\ gstatus = too_many_requests
    /\ slept' = slept + Backoff
    /\ gcall' = [endpoint |-> None, url |-> request_url]
    /\ depth' = depth + 1
    /\ gpc' = "call"
    /\ UNCHANGED <<request_url, sent, gstatus, throttled>>
    /\ UNCHANGED spiderVars

\* `response.raise_for_status(); return response.json()`, through every frame
Query_finish ==
    /\ gpc = "check"
    /\ gstatus # too_many_requests
    /\ gpc' = IF raise_for_status(gstatus) THEN "raised" ELSE "returned"
    /\ depth' = 0
    /\ UNCHANGED <<gcall, request_url, sent, gstatus, throttled, slept>>
    /\ UNCHANGED spiderVars

GraphNext ==
    \/ Query_begin
    \/ Query_get
    \/ Query_throttled
    \/ Query_finish

\* the interpreter runs every step of the call; the server need not answer
GraphSpec ==
    /\ GraphInit
    /\ [][GraphNext]_vars
    /\ WF_vars(Query_begin)
    /\ WF_vars(Query_throttled)
    /\ WF_vars(Query_finish)

----------------------------------------------------------------------------
\* Normalization properties

\* the number of leading 'v' characters of x
LeadingVs(x) ==
    CHOOSE k \in 0..Len(x) :
        /\ \A i \in 1..k : x[i] = "v"
        /\ k = Len(x) \/ x[k + 1] # "v"

RefStripOneV(x) == IF Len(x) > 0 /\ x[1] = "v" THEN [i \in 1..(Len(x) - 1) |-> x[i + 1]] ELSE x

RefStripAllV(x) == [i \in 1..(Len(x) - LeadingVs(x)) |-> x[i + LeadingVs(x)]]

RefDropRelease(x) ==
    IF Len(x) >= 8 /\ \A i \in 1..8 : x[i] = S_release[i]
    THEN [i \in 1..(Len(x) - 8) |-> x[i + 8]]
    ELSE x

RefTruncate(x) ==
    IF \E i \in 1..Len(x) : x[i] = "-"
    THEN LET first == CHOOSE i \in 1..Len(x) :
                          x[i] = "-" /\ \A j \in 1..(i - 1) : x[j] # "-"
         IN [i \in 1..(first - 1) |-> x[i]]
    ELSE x

\* C1: normalizing an already normalized version changes nothing:
\* _beautify_version(_beautify_version(x, True), True) = _beautify_version(x, True)
C1_Idempotent == pc = "twice" => again = result

\* C2 as stated: the result is the four-step reference that strips one single
\* leading 'v' (a second one is kept), drops a leading 'release-', truncates at
\* the first '-'; with beautify=False the input comes back unchanged
C2_SingleV ==
    (spider = "StaticSpider" /\ pc = "done") =>
        /\ outcome = "returned"
        /\ result = IF beautify THEN RefTruncate(RefDropRelease(RefStripOneV(arg))) ELSE arg

\* C2 amended: the same reference with every leading 'v' stripped in step 1
C2_AllV ==
    (spider = "StaticSpider" /\ pc = "done") =>
        /\ outcome = "returned"
        /\ result = IF beautify THEN RefTruncate(RefDropRelease(RefStripAllV(arg))) ELSE arg

C2_Witness ==
    /\ spider = "StaticSpider"
    /\ pc = "done"
    /\ beautify
    /\ arg = <<"v", "v">> \o S_release \o <<"1">>
    /\ result = <<"1">>

----------------------------------------------------------------------------
\* Properties of the spiders

\* the releases whose beautified tag_name starts with the prefix
PrefixMatches(releases, prefix) ==
    {i \in 1..Len(releases) : startswith(_beautify_version(releases[i], TRUE), prefix)}

Chomp(line) == IF line # <<>> /\ line[Len(line)] = "\n" THEN SubSeq(line, 1, Len(line) - 1) ELSE line

\* the text after the last ':' of s
AfterLastColon(s) == SubSeq(s, SetMax({i \in 1..Len(s) : s[i] = ":"}) + 1, Len(s))

\* C4: DockerfileSpider returns, for the first line that matches the FROM
\* pattern, the token after the last ':' of that line (normalized when asked),
\* also when the image reference holds more than one ':'; with no matching
\* line it raises the ValueError that names the path
C4_TokenAfterLastColon ==
    (spider = "DockerfileSpider" /\ pc = "done") =>
        LET found == FirstMatching(body)
        IN IF found = <<>>
           THEN outcome = "raised" /\ exc = "ValueError" /\ msg = "No version found in {path}"
           ELSE /\ outcome = "returned"
                /\ result = _beautify_version(AfterLastColon(Chomp(found[1])), beautify)

\* C5: KubernetesImageVersionSpider returns the text after the last ':' of every
\* image reference it reaches that holds at least one ':' (normalized when
\* asked), and fails only when the path cannot be walked or there is no ':'
C5_TextAfterLastColon ==
    (spider = "KubernetesImageVersionSpider" /\ pc = "done" /\ exc # "CalledProcessError") =>
        LET walked == Walk(data, split(arg, "."))
        IN (walked.ok /\ walked.val.kind = "str" /\ Contains(walked.val.val, ":")) =>
               /\ outcome = "returned"
               /\ result = _beautify_version(AfterLastColon(walked.val.val), beautify)

\* no candidate satisfies the matching rule of the spider
NoCandidate ==
    CASE spider \in {"AlpinePackageSpider", "JenkinsStableSpider", "GithubReleaseSpider"} ->
             body = <<>>
      [] spider = "BitbucketReleaseSpider" -> SelectSeq(body, Bitbucket_version_pattern) = <<>>
      [] spider = "DockerHubSpider" -> SelectSeq(body, DockerHub_version_pattern) = <<>>
      [] spider = "GithubPrefixReleaseSpider" -> PrefixMatches(body, arg) = {}
      [] spider = "SonarQubeReleaseSpider" -> SelectSeq(body, Sonar_is_download) = <<>>
      [] spider = "DockerfileSpider" -> FirstMatching(body) = <<>>
      [] OTHER -> FALSE

Diagnostics == {"No version found in {path}",
                "Failed to locate a release matching prefix: {prefix}",
                "SonarQubeReleaseSpider failed to locate any releases"}

\* C6: whenever no candidate satisfies the matching rule, get_version raises the
\* ValueError with a diagnostic message, never another exception
C6_VersionNotFound ==
    (pc = "done" /\ (spider \in HTTPSpiders => status = 200) /\ NoCandidate) =>
        /\ outcome = "raised"
        /\ exc = "ValueError"
        /\ msg \in Diagnostics

\* C7: an error status of the one request makes get_version raise the HTTPError
\* of the status check before anything is taken from the body; no ValueError is
\* raised and no second request is made
C7_StatusBeforeExtraction ==
    /\ requests <= 1
    /\ (spider \in HTTPSpiders /\ pc = "done" /\ status >= 400) =>
           /\ outcome = "raised"
           /\ exc = "HTTPError"
           /\ ~extracted
           /\ picked = <<>>
           /\ requests = 1

C7_Witness ==
    /\ spider = "DockerHubSpider"
    /\ pc = "done"
    /\ status = 404
    /\ body = <<T_1_9_0>>
    /\ exc = "HTTPError"

\* the candidates the natural sort is given
Candidates ==
    IF spider = "DockerHubSpider" THEN SelectSeq(body, DockerHub_version_pattern) ELSE body

\* s is dot-separated runs of digits, and the integers of those runs
IsDotted(s) == \A i \in 1..Len(split(s, ".")) :
                   split(s, ".")[i] # <<>>
                   /\ \A k \in 1..Len(split(s, ".")[i]) : split(s, ".")[i][k] \in Digit

DottedInts(s) == [i \in 1..Len(split(s, ".")) |-> IntFrom(split(s, ".")[i], 0)]

\* a < b for two tuples of integers
TupleLess(a, b) ==
    \E k \in 1..(Len(b)) :
        /\ \A j \in 1..(k - 1) : j <= Len(a) /\ a[j] = b[j]
        /\ k > Len(a) \/ a[k] < b[k]

\* C8: DockerHubSpider (over the tags that pass its filter) and GithubReleaseSpider
\* (over all tag names) return the candidate that is greatest in natural order,
\* numbers compared as integers, and among equal candidates the first one of the
\* response
C8_NaturalGreatestFirst ==
    (spider \in {"DockerHubSpider", "GithubReleaseSpider"} /\ pc = "done"
        /\ outcome = "returned") =>
        \E i \in 1..Len(Candidates) :
            /\ picked = Candidates[i]
            /\ result = _beautify_version(Candidates[i], beautify)
            /\ \A j \in 1..Len(Candidates) : ~NatLess(Candidates[i], Candidates[j])
            /\ \A j \in 1..(i - 1) : NatLess(Candidates[j], Candidates[i])
            /\ IsDotted(picked) =>
                   \A j \in 1..Len(Candidates) :
                       IsDotted(Candidates[j]) =>
                           ~TupleLess(DottedInts(picked), DottedInts(Candidates[j]))
            /\ picked = T_v1_9_0 => \A j \in 1..Len(Candidates) : Candidates[j] # T_v1_10_0

C8_Witness ==
    /\ spider = "DockerHubSpider"
    /\ pc = "done"
    /\ body = <<T_1_9_0, T_1_010_0, T_1_10_0>>
    /\ picked = T_1_010_0

\* name is three runs of digits separated by literal dots
StrictNNN(name) == Len(split(name, ".")) = 3 /\ IsDotted(name)

\* C10: BitbucketReleaseSpider returns the first entry of the response whose tag
\* name is strictly N.N.N, and never a tag name of another shape
C10_StrictTagShape ==
    (spider = "BitbucketReleaseSpider" /\ pc = "done" /\ outcome = "returned") =>
        /\ StrictNNN(picked)
        /\ \E i \in 1..Len(body) :
               /\ picked = body[i]
               /\ \A j \in 1..(i - 1) : ~StrictNNN(body[j])

----------------------------------------------------------------------------
\* Properties of Graph._query

GraphDone == gpc \in {"returned", "raised"}

\* the 429 response whose backoff has not been taken yet
PendingThrottle == IF gpc = "check" /\ gstatus = too_many_requests THEN 1 ELSE 0

QuerySafety ==
    /\ slept = Backoff * (throttled - PendingThrottle)
    /\ depth = (IF GraphDone THEN 0 ELSE throttled - PendingThrottle)
    /\ \A i \in 1..Len(sent) : sent[i] = request_url
    /\ Len(sent) = throttled + (IF (gpc = "check" /\ gstatus # too_many_requests) \/ GraphDone
                                THEN 1 ELSE 0)
    /\ GraphDone =>
           /\ gstatus # too_many_requests
           /\ Len(sent) = throttled + 1
           /\ slept = Backoff * throttled
           /\ (gpc = "raised") = raise_for_status(gstatus)

\* a 429 response is followed by the backoff and the same request again, however
\* many came before
RetryStep ==
    (gpc = "check" /\ gstatus = too_many_requests) =>
        /\ gpc' = "call"
        /\ slept' = slept + Backoff
        /\ gcall'.url = request_url
        /\ sent' = sent

====
